---- MODULE Spec2Model ----
(***************************************************************************)
(* YawOptimizationWindRoseParallel.optimize()                              *)
(* (floris/tools/optimization/yaw_optimization/                            *)
(*  yaw_optimizer_wind_rose_mpi4py.py)                                     *)
(*                                                                         *)
(* One call of optimize() by the orchestrating process, together with the  *)
(* worker processes of the MPIPoolExecutor that run the submitted tasks.   *)
(* Python values are tagged records: None is [t |-> "None"], a list is     *)
(* [t |-> "list", v |-> <<...>>]; a float64 is [f64 |-> n].                *)
(***************************************************************************)
EXTENDS Integers, Sequences, FiniteSets, TLC

\* Largest number of ambient conditions in the sweep.
MaxN == 3
\* Number of worker processes of the pool.
MaxWorkers == 2

\* The ambient conditions a sweep is drawn from: (wind direction in deg, wind
\* speed in m/s, turbulence intensity in percent), as Python numbers.
Conditions == {<<270, 8, 6>>, <<280, 9, 7>>, <<270, 9, 6>>}

VARIABLES
    wd_array,        \* self.wd_array
    ws_array,        \* self.ws_array
    ti_array,        \* self.ti_array (None when not given)
    mpi_installed,   \* whether "from mpi4py.futures import MPIPoolExecutor" succeeds
    calc_init_power, \* self.yaw_opt.calc_init_power
    flag_before,     \* value of calc_init_power when optimize() was called
    pc,              \* position of the orchestrating process in optimize()
    executor,        \* "none" | "open" | "shutdown"
    futures,         \* the futures created by executor.map, in submission order
    todo,            \* indices of the futures the result iterator has not yielded
    df_opt,          \* the accumulating table (sequence of rows)
    ret,             \* value returned to the caller (None until return)
    exc,             \* exception in flight / raised to the caller
    calls,           \* calls[i]: the _optimize_one_case calls made for task i
    out_of_order     \* some task finished while an earlier one had not

vars == <<wd_array, ws_array, ti_array, mpi_installed, calc_init_power,
          flag_before, pc, executor, futures, todo, df_opt, ret, exc, calls,
          out_of_order>>

----------------------------------------------------------------------------
\* Python values

PyNone == [t |-> "None", v |-> <<>>]

PyList(s) == [t |-> "list", v |-> s]

DataFrame(rows) == [t |-> "DataFrame", v |-> rows]

NoExc == [type |-> "none", idx |-> 0]

SeqsOfLen(S, n) == [1..n -> S]

Min(a, b) == IF a <= b THEN a ELSE b

\* float(x) of a Python number
Float(x) == [f64 |-> x]

\* np.array(x, dtype=float): a list becomes a 1-d float64 array, None becomes
\* the 0-d array(nan)
np_array(x) ==
    IF x.t = "None"
    THEN [ndim |-> 0, data |-> <<>>]
    ELSE [ndim |-> 1, data |-> [i \in 1..Len(x.v) |-> Float(x.v[i])]]

\* iter(a) raises TypeError("iteration over a 0-d array") for a 0-d array
Iterable(a) == a.ndim >= 1

\* zip(a, b, c): coordinate-wise argument tuples (wd, ws, ti), as long as the
\* shortest array
ZipSwapped(a, b, c) ==
    [i \in 1..Min(Len(a.data), Min(Len(b.data), Len(c.data))) |->
        <<b.data[i], a.data[i], c.data[i]>>]

Zip(a, b, c) ==
    [i \in 1..Min(Len(a.data), Min(Len(b.data), Len(c.data))) |->
        <<a.data[i], b.data[i], c.data[i]>>]

\* The single-case optimizer: one result row for (wd, ws, ti), with baseline
\* columns when the optimizer copy it runs on has calc_init_power set.
\* Each per-case frame carries index label 0.
_optimize_one_case(wd, ws, ti, flag) ==
    << [index |-> 0, ws |-> ws, wd |-> wd, ti |-> ti, has_baseline |-> flag] >>

\* df.reset_index(drop=True): index labels 0..N-1
reset_index(df) ==
    [i \in 1..Len(df) |-> [df[i] EXCEPT !.index = i - 1]]

Running == {i \in 1..Len(futures) : futures[i].state = "RUNNING"}

Unfinished == {i \in 1..Len(futures) : futures[i].state \in {"PENDING", "RUNNING"}}

----------------------------------------------------------------------------
\* State after construction, at entry of optimize()

Init ==
    /\ \E n \in 0..MaxN : \E sweep \in SeqsOfLen(Conditions, n) :
          /\ wd_array = PyList([i \in 1..n |-> sweep[i][1]])
          /\ ws_array = PyList([i \in 1..n |-> sweep[i][2]])
          /\ ti_array \in {PyNone, PyList([i \in 1..n |-> sweep[i][3]])}
          /\ calls = [i \in 1..n |-> <<>>]
    /\ mpi_installed \in BOOLEAN
    /\ calc_init_power \in BOOLEAN
    /\ flag_before = calc_init_power
    /\ pc = "import"
    /\ executor = "none"
    /\ futures = <<>>
    /\ todo = <<>>
    /\ df_opt = <<>>
    /\ ret = PyNone
    /\ exc = NoExc
    /\ out_of_order = FALSE

----------------------------------------------------------------------------
\* The orchestrating process

\* lines 122-123, 132-135: the import succeeds, the banner is printed
ImportOk ==
    /\ pc = "import"
    /\ mpi_installed
    /\ pc' = "enforce"
    /\ UNCHANGED <<wd_array, ws_array, ti_array, mpi_installed, calc_init_power,
                   flag_before, executor, futures, todo, df_opt, ret, exc,
                   calls, out_of_order>>

\* a variant that swallows the ImportError and goes on
ImportFailSwallowed ==
    /\ pc = "import"
    /\ ~mpi_installed
    /\ pc' = "enforce"
    /\ UNCHANGED <<wd_array, ws_array, ti_array, mpi_installed, calc_init_power,
                   flag_before, executor, futures, todo, df_opt, ret, exc,
                   calls, out_of_order>>

\* lines 124-130: the import fails, ImportError is raised to the caller
ImportFail ==
    /\ pc = "import"
    /\ ~mpi_installed
    /\ exc' = [type |-> "ImportError", idx |-> 0]
    /\ pc' = "raised"
    /\ UNCHANGED <<wd_array, ws_array, ti_array, mpi_installed, calc_init_power,
                   flag_before, executor, futures, todo, df_opt, ret, calls,
                   out_of_order>>

\* a variant that leaves the flag as the caller set it
EnforceBaselineSkipped ==
    /\ pc = "enforce"
    /\ df_opt' = <<>>
    /\ pc' = "acquire"
    /\ UNCHANGED <<wd_array, ws_array, ti_array, mpi_installed, calc_init_power,
                   flag_before, executor, futures, todo, ret, exc, calls,
                   out_of_order>>

\* lines 137-141: force the baseline computation, start an empty table
EnforceBaseline ==
    /\ pc = "enforce"
    /\ calc_init_power' = TRUE
    /\ df_opt' = <<>>
    /\ pc' = "acquire"
    /\ UNCHANGED <<wd_array, ws_array, ti_array, mpi_installed, flag_before,
                   executor, futures, todo, ret, exc, calls, out_of_order>>

\* line 142: with MPIPoolExecutor() as executor
AcquirePool ==
    /\ pc = "acquire"
    /\ executor' = "open"
    /\ pc' = "map"
    /\ UNCHANGED <<wd_array, ws_array, ti_array, mpi_installed, calc_init_power,
                   flag_before, futures, todo, df_opt, ret, exc, calls,
                   out_of_order>>

\* lines 143-148: executor.map converts the three arrays, zips them and submits
\* one task per tuple; each task carries a pickled copy of self, hence of the
\* flag as it is now
MapSubmit ==
    /\ pc = "map"
    /\ Iterable(np_array(wd_array))
    /\ Iterable(np_array(ws_array))
    /\ Iterable(np_array(ti_array))
    /\ LET args == Zip(np_array(wd_array), np_array(ws_array), np_array(ti_array))
       IN /\ futures' = [i \in 1..Len(args) |->
                            [args |-> args[i],
                             calc_init_power |-> calc_init_power,
                             state |-> "PENDING",
                             result |-> <<>>]]
          /\ todo' = [i \in 1..Len(args) |-> i]
    /\ pc' = "iterate"
    /\ UNCHANGED <<wd_array, ws_array, ti_array, mpi_installed, calc_init_power,
                   flag_before, executor, df_opt, ret, exc, calls, out_of_order>>

\* lines 143-148: zip() cannot iterate a 0-d array; TypeError leaves the with
\* block before anything is submitted
MapTypeError ==
    /\ pc = "map"
    /\ \/ ~Iterable(np_array(wd_array))
       \/ ~Iterable(np_array(ws_array))
       \/ ~Iterable(np_array(ti_array))
    /\ exc' = [type |-> "TypeError", idx |-> 0]
    /\ pc' = "exit_err"
    /\ UNCHANGED <<wd_array, ws_array, ti_array, mpi_installed, calc_init_power,
                   flag_before, executor, futures, todo, df_opt, ret, calls,
                   out_of_order>>

\* the future whose result the iterator of executor.map yields next: the first
\* not yet yielded, in submission order, once it has finished
YieldableUnordered ==
    {i \in 1..Len(futures) :
        /\ \E k \in 1..Len(todo) : todo[k] = i
        /\ futures[i].state = "FINISHED"}

YieldableNoWait ==
    IF todo # <<>> /\ futures[Head(todo)].state # "FAILED"
    THEN {Head(todo)}
    ELSE {}

Yieldable ==
    IF todo # <<>> /\ futures[Head(todo)].state = "FINISHED"
    THEN {Head(todo)}
    ELSE {}

\* df_opt.append(df_one_case): the rows of df_opt followed by those of
\* df_one_case
appendDiscarded(df, df_one_case) == df_one_case

append(df, df_one_case) == df \o df_one_case

\* lines 143, 149: one turn of the for loop
AppendNext ==
    /\ pc = "iterate"
    /\ \E i \in Yieldable :
          /\ df_opt' = append(df_opt, futures[i].result)
          /\ todo' = SelectSeq(todo, LAMBDA j : j # i)
    /\ UNCHANGED <<wd_array, ws_array, ti_array, mpi_installed, calc_init_power,
                   flag_before, pc, executor, futures, ret, exc, calls,
                   out_of_order>>

\* a variant that isolates a failing case and goes on with the next one
IterSkipFailed ==
    /\ pc = "iterate"
    /\ todo # <<>>
    /\ futures[Head(todo)].state = "FAILED"
    /\ todo' = Tail(todo)
    /\ UNCHANGED <<wd_array, ws_array, ti_array, mpi_installed, calc_init_power,
                   flag_before, pc, executor, futures, df_opt, ret, exc, calls,
                   out_of_order>>

\* line 143: the next future failed; the iterator cancels the futures it has
\* not yielded (a running one cannot be cancelled) and re-raises the worker's
\* exception, which leaves the with block
IterRaise ==
    /\ pc = "iterate"
    /\ todo # <<>>
    /\ futures[Head(todo)].state = "FAILED"
    /\ exc' = [type |-> "WorkerError", idx |-> Head(todo)]
    /\ futures' = [i \in 1..Len(futures) |->
                      IF futures[i].state = "PENDING"
                      THEN [futures[i] EXCEPT !.state = "CANCELLED"]
                      ELSE futures[i]]
    /\ todo' = <<>>
    /\ pc' = "exit_err"
    /\ UNCHANGED <<wd_array, ws_array, ti_array, mpi_installed, calc_init_power,
                   flag_before, executor, df_opt, ret, calls, out_of_order>>

\* line 143: the iterator is exhausted, the for loop ends
LoopDone ==
    /\ pc = "iterate"
    /\ todo = <<>>
    /\ pc' = "exit_ok"
    /\ UNCHANGED <<wd_array, ws_array, ti_array, mpi_installed, calc_init_power,
                   flag_before, executor, futures, todo, df_opt, ret, exc,
                   calls, out_of_order>>

\* a variant without the with statement: the pool is shut down after the loop
\* only
ExitPoolAfterLoopOnly ==
    /\ pc \in {"exit_ok", "exit_err"}
    /\ Unfinished = {}
    /\ executor' = IF pc = "exit_ok" THEN "shutdown" ELSE executor
    /\ pc' = IF pc = "exit_ok" THEN "reset_index" ELSE "raised"
    /\ UNCHANGED <<wd_array, ws_array, ti_array, mpi_installed, calc_init_power,
                   flag_before, futures, todo, df_opt, ret, exc, calls,
                   out_of_order>>

\* line 142: leaving the with block, normally or by an exception, runs
\* executor.shutdown(wait=True), which returns once no task is left; then the
\* call goes on, or the exception reaches the caller
ExitPool ==
    /\ pc \in {"exit_ok", "exit_err"}
    /\ Unfinished = {}
    /\ executor' = "shutdown"
    /\ pc' = IF pc = "exit_ok" THEN "reset_index" ELSE "raised"
    /\ UNCHANGED <<wd_array, ws_array, ti_array, mpi_installed, calc_init_power,
                   flag_before, futures, todo, df_opt, ret, exc, calls,
                   out_of_order>>

\* a variant that puts the caller's flag back before returning
ReturnRestoring ==
    /\ pc = "reset_index"
    /\ ret' = DataFrame(reset_index(df_opt))
    /\ calc_init_power' = flag_before
    /\ pc' = "returned"
    /\ UNCHANGED <<wd_array, ws_array, ti_array, mpi_installed, flag_before,
                   executor, futures, todo, df_opt, exc, calls, out_of_order>>

\* lines 151-152: reset the index and return the table
Return ==
    /\ pc = "reset_index"
    /\ ret' = DataFrame(reset_index(df_opt))
    /\ pc' = "returned"
    /\ UNCHANGED <<wd_array, ws_array, ti_array, mpi_installed, calc_init_power,
                   flag_before, executor, futures, todo, df_opt, exc, calls,
                   out_of_order>>

----------------------------------------------------------------------------
\* The worker processes of the pool

\* a worker takes a pending task and calls self._optimize_one_case(wd, ws, ti)
\* on its own copy of self
WorkerStart(i) ==
    /\ executor = "open"
    /\ futures[i].state = "PENDING"
    /\ Cardinality(Running) < MaxWorkers
    /\ futures' = [futures EXCEPT ![i].state = "RUNNING"]
    /\ calls' = [calls EXCEPT ![i] = Append(@,
                    [wd |-> futures[i].args[1],
                     ws |-> futures[i].args[2],
                     ti |-> futures[i].args[3],
                     calc_init_power |-> futures[i].calc_init_power])]
    /\ UNCHANGED <<wd_array, ws_array, ti_array, mpi_installed, calc_init_power,
                   flag_before, pc, executor, todo, df_opt, ret, exc,
                   out_of_order>>

\* the call returns its one-row frame, which becomes the future's result
WorkerFinish(i) ==
    /\ futures[i].state = "RUNNING"
    /\ futures' = [futures EXCEPT
                      ![i].state = "FINISHED",
                      ![i].result = _optimize_one_case(
                          futures[i].args[1], futures[i].args[2],
                          futures[i].args[3], futures[i].calc_init_power)]
    /\ out_of_order' = (out_of_order \/ \E j \in Unfinished : j < i)
    /\ UNCHANGED <<wd_array, ws_array, ti_array, mpi_installed, calc_init_power,
                   flag_before, pc, executor, todo, df_opt, ret, exc, calls>>

\* the call raises, which becomes the future's exception
WorkerRaise(i) ==
    /\ futures[i].state = "RUNNING"
    /\ futures' = [futures EXCEPT ![i].state = "FAILED"]
    /\ UNCHANGED <<wd_array, ws_array, ti_array, mpi_installed, calc_init_power,
                   flag_before, pc, executor, todo, df_opt, ret, exc, calls,
                   out_of_order>>

----------------------------------------------------------------------------
Next ==
    \/ ImportOk
    \/ ImportFail
    \/ EnforceBaseline
    \/ AcquirePool
    \/ MapSubmit
    \/ MapTypeError
    \/ AppendNext
    \/ IterRaise
    \/ LoopDone
    \/ ExitPool
    \/ Return
    \/ \E i \in 1..Len(futures) : WorkerStart(i)
    \/ \E i \in 1..Len(futures) : WorkerFinish(i)
    \/ \E i \in 1..Len(futures) : WorkerRaise(i)

Spec == Init /\ [][Next]_vars

----------------------------------------------------------------------------
\* Properties

N == Len(wd_array.v)

Failed == {i \in 1..Len(futures) : futures[i].state = "FAILED"}

Ended == pc \in {"returned", "raised"}

\* C1: whatever the order in which the workers complete, row i of the returned
\* table has index label i-1 and carries the wd, ws and ti of input index i.
RowOrderPreserved ==
    pc = "returned" =>
        /\ ti_array.t = "list"
        /\ \A i \in 1..Len(ret.v) :
              /\ i <= N
              /\ ret.v[i].index = i - 1
              /\ ret.v[i].wd = Float(wd_array.v[i])
              /\ ret.v[i].ws = Float(ws_array.v[i])
              /\ ret.v[i].ti = Float(ti_array.v[i])

\* a table of two different conditions was returned after the second task
\* finished before the first
RowOrderWitness ==
    /\ pc = "returned"
    /\ out_of_order
    /\ Len(ret.v) = 2
    /\ wd_array.v[1] # wd_array.v[2]

\* C2: a call that returns a table returns one with exactly as many rows as
\* there are ambient conditions in the (equal-length) input arrays.
RowCount ==
    pc = "returned" =>
        /\ Len(ret.v) = N
        /\ Len(ret.v) = Len(ws_array.v)
        /\ Len(ret.v) = Len(ti_array.v)

RowCountWitness ==
    /\ pc = "returned"
    /\ N = MaxN
    /\ Len(ret.v) = MaxN

\* C3: constructed with ti_array=None, a call whose runtime is importable and
\* whose cases all succeed ends by returning a table of N rows, row i carrying
\* the wd and ws of input index i.
TiAbsentReturnsTable ==
    (ti_array.t = "None" /\ mpi_installed /\ Ended /\ Failed = {}) =>
        /\ pc = "returned"
        /\ Len(ret.v) = N
        /\ \A i \in 1..N :
              /\ ret.v[i].wd = Float(wd_array.v[i])
              /\ ret.v[i].ws = Float(ws_array.v[i])

\* C4: when the runtime cannot be imported the call ends with ImportError, and
\* at no point has a single-case call been made, a task been submitted or a
\* pool been acquired.
MissingRuntime ==
    ~mpi_installed =>
        /\ pc \in {"import", "raised"}
        /\ pc = "raised" => exc.type = "ImportError"
        /\ \A i \in DOMAIN calls : calls[i] = <<>>
        /\ futures = <<>>
        /\ executor = "none"
        /\ ret = PyNone

MissingRuntimeWitness ==
    /\ ~mpi_installed
    /\ pc = "raised"
    /\ exc.type = "ImportError"
    /\ N = MaxN

\* C5: when a single-case call has raised, the call ends by raising a worker's
\* error (that of the first failed condition), returns no table, and no
\* condition has been run twice.
SingleCaseFailure ==
    (Ended /\ Failed # {}) =>
        /\ pc = "raised"
        /\ exc.type = "WorkerError"
        /\ exc.idx \in Failed
        /\ \A j \in Failed : exc.idx <= j
        /\ ret = PyNone
        /\ \A i \in DOMAIN calls : Len(calls[i]) <= 1

\* a later condition failed after the rows of earlier ones had been appended
SingleCaseFailureWitness ==
    /\ pc = "raised"
    /\ exc.type = "WorkerError"
    /\ exc.idx > 1
    /\ df_opt # <<>>

\* C6: the flag is True from before the tasks are submitted, every task
\* carries it as True, every single-case call runs with it True, and every
\* returned row has the baseline columns.
BaselineForced ==
    /\ pc \in {"acquire", "map", "iterate"} => calc_init_power
    /\ \A i \in 1..Len(futures) : futures[i].calc_init_power
    /\ \A i \in DOMAIN calls :
          \A k \in 1..Len(calls[i]) : calls[i][k].calc_init_power
    /\ pc = "returned" => \A i \in 1..Len(ret.v) : ret.v[i].has_baseline

BaselineForcedWitness ==
    /\ ~flag_before
    /\ pc = "returned"
    /\ Len(ret.v) = MaxN

\* C7: once the call is past the with block, or has ended, the pool it
\* acquired is shut down and no task is pending or running; only a call that
\* never acquired a pool ends without one.
PoolReleased ==
    /\ pc \in {"reset_index", "returned"} => executor = "shutdown"
    /\ pc = "raised" =>
          IF exc.type = "ImportError"
          THEN executor = "none"
          ELSE executor = "shutdown"
    /\ executor = "shutdown" => Unfinished = {}

\* a worker's error reached the caller after the pool was shut down, with a
\* task cancelled on the way
PoolReleasedWitness ==
    /\ pc = "raised"
    /\ exc.type = "WorkerError"
    /\ executor = "shutdown"
    /\ \E i \in 1..Len(futures) : futures[i].state = "CANCELLED"

\* C8: a table exists for the caller only once the call has returned, and then
\* every condition was submitted and has finished, and the table has no fewer
\* rows than conditions.
NoPartialResults ==
    /\ ret.t = "DataFrame" => pc = "returned"
    /\ pc = "returned" =>
          /\ Len(futures) = N
          /\ \A i \in 1..Len(futures) : futures[i].state = "FINISHED"
          /\ Len(ret.v) >= N

NoPartialResultsWitness ==
    /\ pc = "returned"
    /\ ret.t = "DataFrame"
    /\ Len(futures) = MaxN
    /\ out_of_order

\* C9: in a call that returns, the single-case optimizer was called exactly
\* once for every input index i, with (wd_array[i], ws_array[i], ti_array[i]).
ExactlyOnce ==
    pc = "returned" =>
        /\ ti_array.t = "list"
        /\ \A i \in 1..N :
              /\ Len(calls[i]) = 1
              /\ calls[i][1].wd = Float(wd_array.v[i])
              /\ calls[i][1].ws = Float(ws_array.v[i])
              /\ calls[i][1].ti = Float(ti_array.v[i])

\* two conditions that differ in every coordinate
ExactlyOnceWitness ==
    /\ pc = "returned"
    /\ N = 2
    /\ wd_array.v[1] # wd_array.v[2]
    /\ ws_array.v[1] # ws_array.v[2]
    /\ ti_array.v[1] # ti_array.v[2]

\* C10: a call that got past the import ends with the flag True, whether it
\* returned or raised; a call that raised ImportError ends with the flag as it
\* was before the call.
FlagPersists ==
    /\ (Ended /\ exc.type # "ImportError") => calc_init_power
    /\ (pc = "raised" /\ exc.type = "ImportError") =>
          calc_init_power = flag_before

FlagPersistsWitness ==
    /\ pc = "raised"
    /\ exc.type = "WorkerError"
    /\ ~flag_before
    /\ calc_init_power

====
